---- MODULE Spec2Model ----
(***************************************************************************)
(* Model of GhApiClient (crates/binstalk-git-repo-api/src/gh_api_client.rs) *)
(* Concurrent callers of has_release_artifact share one Inner: the map of  *)
(* per-release OnceCells, the retry_after mutex and the auth-token flag.   *)
(* Each shared-memory access of has_release_artifact is one step of the    *)
(* caller that performs it; a network fetch is issued in one step and      *)
(* returns in a later one.                                                 *)
(***************************************************************************)
EXTENDS Integers, Sequences, FiniteSets, TLC

\* ---------------------------------------------------------------- bounds
\* total number of has_release_artifact calls made on the client
MaxCalls == 3
\* last instant the clock reaches
MaxTime == 600
\* the clock advances in steps of this many seconds
TickStep == 300
\* a retry-after duration supplied by the server (the spec's 5 minutes)
ShortRetry == 300
\* largest representable Instant (scaled down from the platform's width)
InstantMax == 2000

\* ---------------------------------------------------------------- constants
\* default retry duration if x-ratelimit-reset is not found in response header
DEFAULT_RETRY_DURATION == 10 * 60

Callers == {"t1", "t2", "t3"}
Releases == {"R1", "R2"}
\* the artifact each caller asks about
Wanted(c) == CASE c = "t1" -> "a" [] c = "t2" -> "c" [] OTHER -> "b"

\* Option::None of Option<Instant> / Option<Duration> / a caller-less permit
NoInstant == -1
NoDuration == -1
NoCell == 0

\* the assets the server lists for a release
Assets(r) == IF r = "R1" THEN {"a", "b", "c"} ELSE {"a", "b"}
\* the download url of asset n of release r
Url(r, n) == <<r, n>>
\* Artifacts: artifact name -> download url, built from a Success response
ArtifactsOf(r) == [n \in Assets(r) |-> Url(r, n)]
EmptyIndex == [n \in {} |-> <<>>]

\* a retry-after duration large enough to overflow Instant + Duration
HugeRetry == InstantMax
Durations == {NoDuration, ShortRetry, HugeRetry}

\* GhApiRet as returned by fetch_release_artifacts, plus Err(GhApiError)
Outcomes ==
    {[kind |-> k, dur |-> NoDuration] : k \in {"Success", "NotFound", "Unauthorized", "Err"}}
    \cup {[kind |-> "ReachedRateLimit", dur |-> d] : d \in Durations}

\* values of Result<Option<Artifacts>, FetchReleaseArtifactError>
Pending == [kind |-> "Pending", index |-> EmptyIndex, at |-> NoInstant]
OkSome(r) == [kind |-> "Some", index |-> ArtifactsOf(r), at |-> NoInstant]
OkNone == [kind |-> "None", index |-> EmptyIndex, at |-> NoInstant]
ErrRateLimit(t) == [kind |-> "RateLimit", index |-> EmptyIndex, at |-> t]
ErrUnauthorized == [kind |-> "Unauthorized", index |-> EmptyIndex, at |-> NoInstant]
ErrError == [kind |-> "Error", index |-> EmptyIndex, at |-> NoInstant]
\* an OnceCell that has not been set
Uninit == [kind |-> "Uninit", index |-> EmptyIndex, at |-> NoInstant]

\* values of Result<HasReleaseArtifact, GhApiError>
NoResult == [kind |-> "NoResult", url |-> <<>>, at |-> NoInstant]
Yes(u) == [kind |-> "Yes", url |-> u, at |-> NoInstant]
No == [kind |-> "No", url |-> <<>>, at |-> NoInstant]
NoSuchRelease == [kind |-> "NoSuchRelease", url |-> <<>>, at |-> NoInstant]
Unauthorized == [kind |-> "Unauthorized", url |-> <<>>, at |-> NoInstant]
RateLimit(t) == [kind |-> "RateLimit", url |-> <<>>, at |-> t]
GhApiErr == [kind |-> "Err", url |-> <<>>, at |-> NoInstant]

VARIABLES
    release_artifacts,   \* Map: release -> index of its cell (NoCell: no entry)
    cells,               \* the OnceCells ever created: their values
    permits,             \* per cell, the holder of its semaphore permit
    retry_after,         \* Mutex<Option<Instant>>
    auth_token,          \* whether a token was configured
    is_auth_token_valid, \* AtomicBool
    now,                 \* Instant::now()
    pc,                  \* position of each caller inside has_release_artifact
    release,             \* argument of the call
    artifact_name,       \* argument of the call
    once_cell,           \* the Arc<OnceCell> Map::get returned to the caller
    guard,               \* the closure's local retry_after: the deadline it read
    res,                 \* what get_or_try_init returned to the caller
    fetches,             \* history: the fetches this call issued, with outcomes
    returned,            \* history: the value the step just taken returned from
                         \* has_release_artifact, if it was a return
    issued,              \* history: fetches issued per release, counted for as
                         \* long as every answer so far was Success
    allSuccess,          \* history: every fetch so far was answered Success
    tokenRejected,       \* history: a credentialed fetch was classified Unauthorized
    newest,              \* history: the deadline of the rate-limit response
                         \* classified most recently
    tasks,               \* the callers that use the client
    offered,             \* the releases they ask about
    calls,               \* history: number of calls made
    url,                 \* the Url handed to try_extract_from_url
    extracted,           \* Option<GhReleaseArtifact> it returned
    response,            \* status and headers handed to check_for_status
    classified,          \* Option<GhApiRet> it returned
    stage                \* how far the function under examination has run

vars == <<release_artifacts, cells, permits, retry_after, auth_token,
          is_auth_token_valid, now, pc, release, artifact_name, once_cell,
          guard, res, fetches, returned, issued, allSuccess, tokenRejected, newest, tasks,
          offered, calls, url, extracted, response, classified, stage>>

\* the variables of the client and of its callers
client == <<release_artifacts, cells, permits, retry_after, auth_token,
            is_auth_token_valid, now, pc, release, artifact_name, once_cell,
            guard, res, fetches, returned, issued, allSuccess, tokenRejected,
            newest, tasks, offered, calls>>

\* the variables of the pure functions
pure == <<url, extracted, response, classified, stage>>

shared == <<release_artifacts, cells, permits, retry_after, is_auth_token_valid>>
args == <<release, artifact_name, guard>>
hist == <<issued, allSuccess, tokenRejected, newest, tasks, offered, calls>>

Free == "free"
Closed == "closed"

\* one fetch of a call: issued with or without the token, and what the
\* server answered
InFlight(cred) == [cred |-> cred, kind |-> "InFlight", dur |-> NoDuration]
Answered(f, o) == [cred |-> f.cred, kind |-> o.kind, dur |-> o.dur]
NoIssue == [r \in Releases |-> 0]

\* Option<T>: None is the empty sequence, Some(x) the sequence of x alone
None == <<>>
Some(x) == <<x>>

\* a Url: its scheme, domain(), path_segments(), query() and fragment();
\* a path segment is the sequence of its bytes
NoUrl == [scheme |-> "", domain |-> None, path |-> <<>>, query |-> None,
          fragment |-> None]
\* a response body that is not read
NoBody == [kind |-> "none", errors |-> <<>>]
\* a response: its status code, the values of the two rate-limit headers,
\* each the sequence of its bytes when the header is present, and its body
NoResponse == [status |-> 0, remaining |-> None, reset |-> None, body |-> NoBody]

\* no function is under examination
NotExamined ==
    /\ url = NoUrl
    /\ extracted = None
    /\ response = NoResponse
    /\ classified = None
    /\ stage = "none"

\* GhApiClient::new
Start ==
    /\ release_artifacts = [r \in Releases |-> NoCell]
    /\ cells = <<>>
    /\ permits = <<>>
    /\ retry_after = NoInstant
    /\ auth_token \in BOOLEAN
    /\ is_auth_token_valid = TRUE
    /\ now = 0
    /\ pc = [c \in Callers |-> "idle"]
    /\ release = [c \in Callers |-> "none"]
    /\ artifact_name = [c \in Callers |-> "none"]
    /\ once_cell = [c \in Callers |-> NoCell]
    /\ guard = [c \in Callers |-> NoInstant]
    /\ res = [c \in Callers |-> Pending]
    /\ fetches = [c \in Callers |-> <<>>]
    /\ returned = NoResult
    /\ issued = NoIssue
    /\ allSuccess = TRUE
    /\ tokenRejected = FALSE
    /\ newest = NoInstant
    /\ calls = 0

\* two callers, any release
Init ==
    /\ Start
    /\ NotExamined
    /\ tasks = {"t1", "t2"}
    /\ offered = Releases

\* three callers, one release
InitSameRelease ==
    /\ Start
    /\ NotExamined
    /\ tasks = Callers
    /\ offered = {"R1"}

\* a caller invokes has_release_artifact(GhReleaseArtifact {release, artifact_name})
Call(c, r) ==
    /\ pc[c] = "idle"
    /\ c \in tasks
    /\ r \in offered
    /\ calls < MaxCalls
    /\ calls' = calls + 1
    /\ pc' = [pc EXCEPT ![c] = "map_read"]
    /\ release' = [release EXCEPT ![c] = r]
    /\ artifact_name' = [artifact_name EXCEPT ![c] = Wanted(c)]
    /\ returned' = NoResult
    /\ UNCHANGED pure
    /\ UNCHANGED <<shared, auth_token, now, once_cell, guard, res, fetches, issued, allSuccess, tokenRejected, newest, tasks, offered>>

\* Map::get, first line: look the key up under the read lock
MapGetRead(c) ==
    /\ pc[c] = "map_read"
    /\ IF release_artifacts[release[c]] # NoCell
       THEN /\ once_cell' = [once_cell EXCEPT ![c] = release_artifacts[release[c]]]
            /\ pc' = [pc EXCEPT ![c] = "once"]
       ELSE /\ pc' = [pc EXCEPT ![c] = "map_write"]
            /\ UNCHANGED once_cell
    /\ returned' = NoResult
    /\ UNCHANGED pure
    /\ UNCHANGED <<shared, auth_token, now, args, res, fetches, hist>>

\* variant: HashMap::insert(k, V::default()), a fresh cell on every write
EntryInsert(m, k, n) == n + 1

\* HashMap::entry(k).or_default(): the cell of k, created when k has none
EntryOrDefault(m, k, n) == IF m[k] # NoCell THEN m[k] ELSE n + 1

\* Map::get, second line: entry(k).or_default() under the write lock
MapGetWrite(c) ==
    LET i == EntryOrDefault(release_artifacts, release[c], Len(cells)) IN
    /\ pc[c] = "map_write"
    /\ IF i > Len(cells)
       THEN /\ cells' = Append(cells, Uninit)
            /\ permits' = Append(permits, Free)
       ELSE UNCHANGED <<cells, permits>>
    /\ release_artifacts' = [release_artifacts EXCEPT ![release[c]] = i]
    /\ once_cell' = [once_cell EXCEPT ![c] = i]
    /\ pc' = [pc EXCEPT ![c] = "once"]
    /\ returned' = NoResult
    /\ UNCHANGED pure
    /\ UNCHANGED <<retry_after, is_auth_token_valid, auth_token, now, args, res,
                   fetches, hist>>

\* variant: the closure runs without holding the cell's permit
CanAcquireUnguarded(cell, permit) == cell = Uninit

\* Semaphore::acquire on the cell's one-permit semaphore can complete
CanAcquire(cell, permit) == cell = Uninit /\ permit = Free

\* OnceCell::get_or_try_init: an initialized cell yields its value; otherwise
\* the caller waits for the cell's single permit and then runs the closure
GetOrTryInit(c) ==
    /\ pc[c] = "once"
    /\ \/ /\ cells[once_cell[c]] # Uninit
          /\ res' = [res EXCEPT ![c] = cells[once_cell[c]]]
          /\ pc' = [pc EXCEPT ![c] = "return"]
          /\ UNCHANGED permits
       \/ /\ CanAcquire(cells[once_cell[c]], permits[once_cell[c]])
          /\ permits' = [permits EXCEPT ![once_cell[c]] = c]
          /\ pc' = [pc EXCEPT ![c] = "gate"]
          /\ UNCHANGED res
    /\ returned' = NoResult
    /\ UNCHANGED pure
    /\ UNCHANGED <<release_artifacts, cells, retry_after, is_auth_token_valid,
                   auth_token, now, args, once_cell, fetches, hist>>

\* variant: a failed computation is memoized as "no such release"
SetValueAlsoOnErr(old, v) ==
    IF v.kind \in {"Some", "None"} THEN v
    ELSE IF v.kind = "Error" THEN OkNone ELSE old

\* what get_or_try_init stores in the cell when the closure returned v:
\* Ok(value) is set, an Err leaves the cell as it is
SetValue(old, v) == IF v.kind \in {"Some", "None"} THEN v ELSE old

\* variant: the permit is given back only by a closure that returned Ok
PermitKeptOnErr(c, v) == IF v.kind \in {"Some", "None"} THEN Closed ELSE c

\* the cell's semaphore after the closure of caller c returned v: closed by
\* set_value on Ok, the permit dropped on Err
AfterClosure(c, v) == IF v.kind \in {"Some", "None"} THEN Closed ELSE Free

\* the closure's result leaves get_or_try_init: Ok sets the cell and closes
\* its semaphore, Err releases the permit
Close(c, v) ==
    /\ res' = [res EXCEPT ![c] = v]
    /\ cells' = [cells EXCEPT ![once_cell[c]] = SetValue(@, v)]
    /\ permits' = [permits EXCEPT ![once_cell[c]] = AfterClosure(c, v)]
    /\ pc' = [pc EXCEPT ![c] = "return"]

\* variant: the deadline counts as passed at the instant it is reached
ElapsedStrict(deadline, t) == t < deadline

\* variant: a stored deadline never counts as passed
ElapsedNever(deadline, t) == TRUE

\* retry_after.elapsed().is_zero(): the deadline has not passed yet
ElapsedIsZero(deadline, t) == t <= deadline

\* the closure's first block: read and maybe clear retry_after under its mutex
GateCheck(c) ==
    /\ pc[c] = "gate"
    /\ guard' = [guard EXCEPT ![c] = retry_after]
    /\ IF retry_after # NoInstant /\ ElapsedIsZero(retry_after, now)
       THEN /\ Close(c, ErrRateLimit(retry_after))
            /\ UNCHANGED retry_after
       ELSE /\ retry_after' = NoInstant
            /\ pc' = [pc EXCEPT ![c] = "auth"]
            /\ UNCHANGED <<res, permits, cells>>
    /\ returned' = NoResult
    /\ UNCHANGED pure
    /\ UNCHANGED <<release_artifacts, is_auth_token_valid, auth_token, now,
                   release, artifact_name, once_cell, fetches, hist>>

\* the ledger of issued fetches
Issue(n, r, counting) == IF counting THEN [n EXCEPT ![r] = @ + 1] ELSE n
Keep(n, o) == IF o.kind = "Success" THEN n ELSE NoIssue

\* is_auth_token_valid.load(Relaxed), then the first do_fetch_release_artifacts
\* is issued: with the configured token when the flag is set, without otherwise
LoadAuthTokenValid(c) ==
    /\ pc[c] = "auth"
    /\ IF is_auth_token_valid
       THEN /\ fetches' = [fetches EXCEPT ![c] = Append(@, InFlight(auth_token))]
            /\ pc' = [pc EXCEPT ![c] = "fetch_with_token"]
       ELSE /\ fetches' = [fetches EXCEPT ![c] = Append(@, InFlight(FALSE))]
            /\ pc' = [pc EXCEPT ![c] = "fetch_without_token"]
    /\ issued' = Issue(issued, release[c], allSuccess)
    /\ returned' = NoResult
    /\ UNCHANGED pure
    /\ UNCHANGED <<shared, auth_token, now, args, once_cell, res, allSuccess, tokenRejected, newest, tasks, offered, calls>>

\* variant: a saturating add instead of the fallback to the default
CheckedAddSaturating(t, d) == IF t + d > InstantMax THEN InstantMax ELSE t + d

\* now.checked_add(retry_after).unwrap_or_else(|| now + DEFAULT_RETRY_DURATION)
CheckedAdd(t, d) == IF t + d > InstantMax THEN t + DEFAULT_RETRY_DURATION ELSE t + d

\* do_fetch_release_artifacts: the match on what fetch_release_artifacts returned
do_fetch_release_artifacts(r, o, t) ==
    CASE o.kind = "NotFound" -> OkNone
      [] o.kind = "Success" -> OkSome(r)
      [] o.kind = "ReachedRateLimit" ->
            ErrRateLimit(CheckedAdd(t, IF o.dur = NoDuration
                                       THEN DEFAULT_RETRY_DURATION ELSE o.dur))
      [] o.kind = "Unauthorized" -> ErrUnauthorized
      [] OTHER -> ErrError

\* the deadline classified most recently, once a fetch has returned v
Classified(old, v) == IF v.kind = "RateLimit" THEN v.at ELSE old

\* the answer o to the call's fetch in flight arrives
Answer(fs, o) == [fs EXCEPT ![Len(fs)] = Answered(@, o)]

\* variant: a rate-limited first fetch falls through as well
FallsThroughWhenLimited(v) == v.kind \in {"Unauthorized", "RateLimit"}

\* variant: Unauthorized is returned like any other result
FallsThroughNever(v) == FALSE

\* the match on the result of the fetch issued while the flag was set:
\* TRUE when the call falls through to the fetch without token
FallsThrough(v) == v.kind = "Unauthorized"

\* variant: the flag is never cleared
AfterAttemptKept(valid, v) == valid

\* is_auth_token_valid after that match: store(false) on Unauthorized
AfterAttempt(valid, v) == IF FallsThrough(v) THEN FALSE ELSE valid

\* the fetch issued while the flag was set returns
FetchWithTokenReturns(c, o) ==
    LET v == do_fetch_release_artifacts(release[c], o, now) IN
    /\ pc[c] = "fetch_with_token"
    /\ allSuccess' = (allSuccess /\ o.kind = "Success")
    /\ tokenRejected' = (tokenRejected \/ (o.kind = "Unauthorized" /\ auth_token))
    /\ newest' = Classified(newest, v)
    /\ is_auth_token_valid' = AfterAttempt(is_auth_token_valid, v)
    /\ IF FallsThrough(v)
       THEN \* Err(Error::Unauthorized): clear the flag, go on to the fetch
            \* without token
            /\ fetches' = [fetches EXCEPT ![c] = Append(Answer(@, o), InFlight(FALSE))]
            /\ issued' = Issue(Keep(issued, o), release[c], FALSE)
            /\ pc' = [pc EXCEPT ![c] = "fetch_without_token"]
            /\ UNCHANGED <<res, cells, permits>>
       ELSE \* res => return res
            /\ Close(c, v)
            /\ fetches' = [fetches EXCEPT ![c] = Answer(@, o)]
            /\ issued' = Keep(issued, o)
    /\ returned' = NoResult
    /\ UNCHANGED pure
    /\ UNCHANGED <<release_artifacts, retry_after, auth_token, now, args,
                   once_cell, tasks, offered, calls>>

\* self.do_fetch_release_artifacts(&release, None) returns
FetchWithoutTokenReturns(c, o) ==
    /\ pc[c] = "fetch_without_token"
    /\ allSuccess' = (allSuccess /\ o.kind = "Success")
    /\ newest' = Classified(newest, do_fetch_release_artifacts(release[c], o, now))
    /\ Close(c, do_fetch_release_artifacts(release[c], o, now))
    /\ fetches' = [fetches EXCEPT ![c] = Answer(@, o)]
    /\ issued' = Keep(issued, o)
    /\ returned' = NoResult
    /\ UNCHANGED pure
    /\ UNCHANGED <<release_artifacts, retry_after, is_auth_token_valid,
                   auth_token, now, args, once_cell, tokenRejected, tasks, offered, calls>>

\* Artifacts::get_artifact_url: exact match on the artifact name
HasArtifact(index, n) == n \in DOMAIN index
get_artifact_url(index, n) == index[n]

\* variant: a name missing from the index is reported like a missing release
TranslateAbsentAsMissing(v, n) ==
    CASE v.kind = "Some" ->
            IF n \in DOMAIN v.index THEN Yes(v.index[n]) ELSE NoSuchRelease
      [] v.kind = "None" -> NoSuchRelease
      [] v.kind = "Unauthorized" -> Unauthorized
      [] v.kind = "RateLimit" -> RateLimit(v.at)
      [] OTHER -> GhApiErr

\* the final match of has_release_artifact
Translate(v, n) ==
    CASE v.kind = "Some" ->
            IF HasArtifact(v.index, n) THEN Yes(get_artifact_url(v.index, n)) ELSE No
      [] v.kind = "None" -> NoSuchRelease
      [] v.kind = "Unauthorized" -> Unauthorized
      [] v.kind = "RateLimit" -> RateLimit(v.at)
      [] OTHER -> GhApiErr

\* variant: the later of the stored and the returned deadline is kept
RecordedLater(v, old) ==
    IF v.kind = "RateLimit" /\ v.at > old THEN v.at ELSE old

\* variant: a return other than RateLimit clears the stored deadline
RecordedOrCleared(v, old) == IF v.kind = "RateLimit" THEN v.at ELSE NoInstant

\* what the final match leaves in retry_after
Recorded(v, old) == IF v.kind = "RateLimit" THEN v.at ELSE old

\* has_release_artifact returns: the match on res, which records the deadline
\* of a RateLimit under the mutex; the caller is then free for another call
Return(c) ==
    /\ pc[c] = "return"
    /\ returned' = Translate(res[c], artifact_name[c])
    /\ UNCHANGED pure
    /\ retry_after' = Recorded(res[c], retry_after)
    /\ pc' = [pc EXCEPT ![c] = "idle"]
    /\ release' = [release EXCEPT ![c] = "none"]
    /\ artifact_name' = [artifact_name EXCEPT ![c] = "none"]
    /\ guard' = [guard EXCEPT ![c] = NoInstant]
    /\ once_cell' = [once_cell EXCEPT ![c] = NoCell]
    /\ res' = [res EXCEPT ![c] = Pending]
    /\ fetches' = [fetches EXCEPT ![c] = <<>>]
    /\ UNCHANGED <<release_artifacts, cells, permits, is_auth_token_valid,
                   auth_token, now, issued, allSuccess, tokenRejected, newest, tasks,
                   offered, calls>>

\* time passes
Tick ==
    /\ now + TickStep <= MaxTime
    /\ now' = now + TickStep
    /\ returned' = NoResult
    /\ UNCHANGED pure
    /\ UNCHANGED <<shared, auth_token, pc, args, once_cell, res, fetches, hist>>

Next ==
    \/ \E c \in Callers, r \in Releases : Call(c, r)
    \/ \E c \in Callers : MapGetRead(c)
    \/ \E c \in Callers : MapGetWrite(c)
    \/ \E c \in Callers : GetOrTryInit(c)
    \/ \E c \in Callers : GateCheck(c)
    \/ \E c \in Callers : LoadAuthTokenValid(c)
    \/ \E c \in Callers, o \in Outcomes : FetchWithTokenReturns(c, o)
    \/ \E c \in Callers, o \in Outcomes : FetchWithoutTokenReturns(c, o)
    \/ \E c \in Callers : Return(c)
    \/ Tick

Spec == Init /\ [][Next]_vars
SpecSameRelease == InitSameRelease /\ [][Next]_vars

\* the future of has_release_artifact is dropped at one of its await points:
\* while it waits in get_or_try_init for the cell's permit, or while the
\* closure it runs awaits a fetch. The closure is part of the caller's
\* future: dropping it drops the request in flight and the permit, which
\* goes back to the cell's semaphore, and the cell stays uninitialized
Abandon(c) ==
    /\ pc[c] \in {"once", "fetch_with_token", "fetch_without_token"}
    /\ permits' = IF pc[c] = "once" THEN permits
                  ELSE [permits EXCEPT ![once_cell[c]] = Free]
    /\ pc' = [pc EXCEPT ![c] = "idle"]
    /\ release' = [release EXCEPT ![c] = "none"]
    /\ artifact_name' = [artifact_name EXCEPT ![c] = "none"]
    /\ guard' = [guard EXCEPT ![c] = NoInstant]
    /\ once_cell' = [once_cell EXCEPT ![c] = NoCell]
    /\ res' = [res EXCEPT ![c] = Pending]
    /\ fetches' = [fetches EXCEPT ![c] = <<>>]
    /\ returned' = NoResult
    /\ UNCHANGED pure
    /\ UNCHANGED <<release_artifacts, cells, retry_after, is_auth_token_valid,
                   auth_token, now, hist>>

\* every step of a call that has begun, the answers to its fetches included
Proceeds(c) ==
    \/ MapGetRead(c)
    \/ MapGetWrite(c)
    \/ GetOrTryInit(c)
    \/ GateCheck(c)
    \/ LoadAuthTokenValid(c)
    \/ \E o \in Outcomes : FetchWithTokenReturns(c, o)
    \/ \E o \in Outcomes : FetchWithoutTokenReturns(c, o)
    \/ Return(c)

\* the runtime polls every task that can make progress, and every fetch is
\* answered
Fairness == \A c \in Callers : WF_vars(Proceeds(c))

\* two callers, one release
InitJoin ==
    /\ Start
    /\ NotExamined
    /\ tasks = {"t1", "t2"}
    /\ offered = {"R1"}

\* two callers of one release under fair scheduling
SpecFair == InitJoin /\ [][Next]_vars /\ Fairness

NextAbandon ==
    \/ Next
    \/ \E c \in Callers : Abandon(c)

\* three callers of one release, each of which may drop its call
SpecAbandon == InitSameRelease /\ [][NextAbandon]_vars

TypeOK ==
    /\ retry_after \in {NoInstant} \cup 0..(InstantMax + DEFAULT_RETRY_DURATION)
    /\ Len(cells) = Len(permits)
    /\ \A c \in Callers : Len(fetches[c]) <= 2

\* ------------------------------------------------ try_extract_from_url
\* largest number of path segments of a url
MaxSegments == 7
\* largest number of bytes of a path segment drawn freely
MaxLen == 3

\* "releases" and "download" as bytes
releases == <<114, 101, 108, 101, 97, 115, 101, 115>>
download == <<100, 111, 119, 110, 108, 111, 97, 100>>
\* the replacement character U+FFFD
Replacement == 65533

\* the bytes url path segments are spelled with: % 2 F .
SegmentBytes == {37, 50, 70, 46}
RECURSIVE StringsUpTo(_, _)
StringsUpTo(alphabet, n) ==
    IF n = 0 THEN {<<>>}
    ELSE LET shorter == StringsUpTo(alphabet, n - 1) IN
         shorter \cup {Append(s, b) : s \in {t \in shorter : Len(t) = n - 1},
                                      b \in alphabet}
RECURSIVE SeqsUpTo(_, _)
SeqsUpTo(S, n) ==
    IF n = 0 THEN {<<>>}
    ELSE LET shorter == SeqsUpTo(S, n - 1) IN
         shorter \cup {Append(s, x) : s \in {t \in shorter : Len(t) = n - 1},
                                      x \in S}

\* value of an ASCII hex digit, -1 for any other byte
HexVal(b) ==
    IF b >= 48 /\ b <= 57 THEN b - 48
    ELSE IF b >= 65 /\ b <= 70 THEN b - 55
    ELSE IF b >= 97 /\ b <= 102 THEN b - 87
    ELSE -1
\* the upper-case hex digit of n
HexDigit(n) == IF n < 10 THEN 48 + n ELSE 55 + n

\* percent_decode_str: %XY with hex digits X and Y becomes the byte XY, every
\* other byte is copied
RECURSIVE percent_decode_str(_)
percent_decode_str(s) ==
    IF s = <<>> THEN <<>>
    ELSE IF s[1] = 37 /\ Len(s) >= 3 /\ HexVal(s[2]) >= 0 /\ HexVal(s[3]) >= 0
         THEN <<16 * HexVal(s[2]) + HexVal(s[3])>>
                  \o percent_decode_str(SubSeq(s, 4, Len(s)))
         ELSE <<s[1]>> \o percent_decode_str(Tail(s))

IsCont(b) == b >= 128 /\ b <= 191
\* the first char of the bytes s and the number of bytes it takes; bytes that
\* start no well-formed UTF-8 sequence give U+FFFD for their longest prefix
\* that could start one
Utf8Next(s) ==
    LET b == s[1]
        lo == IF b = 224 THEN 160 ELSE IF b = 240 THEN 144 ELSE 128
        hi == IF b = 237 THEN 159 ELSE IF b = 244 THEN 143 ELSE 191
        ok2 == Len(s) >= 2 /\ s[2] >= lo /\ s[2] <= hi
        ok3 == ok2 /\ Len(s) >= 3 /\ IsCont(s[3])
        ok4 == ok3 /\ Len(s) >= 4 /\ IsCont(s[4])
    IN  IF b < 128 THEN <<b, 1>>
        ELSE IF b >= 194 /\ b <= 223 THEN
            IF ok2 THEN <<(b - 192) * 64 + (s[2] - 128), 2>>
            ELSE <<Replacement, 1>>
        ELSE IF b >= 224 /\ b <= 239 THEN
            IF ok3 THEN <<(b - 224) * 4096 + (s[2] - 128) * 64 + (s[3] - 128), 3>>
            ELSE IF ok2 THEN <<Replacement, 2>>
            ELSE <<Replacement, 1>>
        ELSE IF b >= 240 /\ b <= 244 THEN
            IF ok4 THEN <<(b - 240) * 262144 + (s[2] - 128) * 4096
                            + (s[3] - 128) * 64 + (s[4] - 128), 4>>
            ELSE IF ok3 THEN <<Replacement, 3>>
            ELSE IF ok2 THEN <<Replacement, 2>>
            ELSE <<Replacement, 1>>
        ELSE <<Replacement, 1>>

\* decode_utf8_lossy: the chars of the bytes s
RECURSIVE decode_utf8_lossy(_)
decode_utf8_lossy(s) ==
    IF s = <<>> THEN <<>>
    ELSE LET n == Utf8Next(s) IN
         <<n[1]>> \o decode_utf8_lossy(SubSeq(s, n[2] + 1, Len(s)))

\* variant: a segment is handed on as it is spelled in the url
percent_decode_not(input) == input

\* percent_decode_http_url_path: the chars of a segment
percent_decode_http_url_path(input) ==
    IF \E i \in 1..Len(input) : input[i] = 37
    THEN decode_utf8_lossy(percent_decode_str(input))
    ELSE input

\* the UTF-8 bytes of the char c
Utf8Encode(c) ==
    IF c < 128 THEN <<c>>
    ELSE IF c < 2048 THEN <<192 + (c \div 64), 128 + (c % 64)>>
    ELSE IF c < 65536 THEN
        <<224 + (c \div 4096), 128 + ((c \div 64) % 64), 128 + (c % 64)>>
    ELSE <<240 + (c \div 262144), 128 + ((c \div 4096) % 64),
           128 + ((c \div 64) % 64), 128 + (c % 64)>>

\* variant: the PATH set, which leaves / and % and \ as they are
PATH(b) ==
    \/ b < 32 \/ b = 127
    \/ b \in {32, 34, 60, 62, 96}
    \/ b \in {35, 63, 123, 125}

\* the AsciiSet SPECIAL_PATH_SEGMENT: CONTROLS, the FRAGMENT and PATH
\* additions, then / and % and \
SPECIAL_PATH_SEGMENT(b) ==
    \/ b < 32 \/ b = 127
    \/ b \in {32, 34, 60, 62, 96}
    \/ b \in {35, 63, 123, 125}
    \/ b \in {47, 37}
    \/ b = 92

\* utf8_percent_encode over bytes: a byte of the set, and every non-ASCII
\* byte, becomes %XY
RECURSIVE PercentEncodeBytes(_)
PercentEncodeBytes(s) ==
    IF s = <<>> THEN <<>>
    ELSE (IF s[1] >= 128 \/ SPECIAL_PATH_SEGMENT(s[1])
          THEN <<37, HexDigit(s[1] \div 16), HexDigit(s[1] % 16)>>
          ELSE <<s[1]>>) \o PercentEncodeBytes(Tail(s))

RECURSIVE Utf8Bytes(_)
Utf8Bytes(chars) ==
    IF chars = <<>> THEN <<>>
    ELSE Utf8Encode(chars[1]) \o Utf8Bytes(Tail(chars))

\* percent_encode_http_url_path: the bytes of the encoded segment
percent_encode_http_url_path(path) == PercentEncodeBytes(Utf8Bytes(path))

\* the path "/s1/s2/.../sn" of the segments s1 .. sn
RECURSIVE JoinPath(_)
JoinPath(segments) ==
    IF segments = <<>> THEN <<>>
    ELSE <<47>> \o segments[1] \o JoinPath(Tail(segments))

\* the text of a url as it is handed to Url::parse: the path is the bytes
\* between the host and the query
Text(scheme, host, path, query, fragment) ==
    [scheme |-> scheme, host |-> host, path |-> path, query |-> query,
     fragment |-> fragment]

\* the pieces of a path between its separators; in the special schemes
\* (http, https) a backslash separates like a slash
RECURSIVE Split(_, _)
Split(s, cur) ==
    IF s = <<>> THEN <<cur>>
    ELSE IF s[1] \in {47, 92} THEN <<cur>> \o Split(Tail(s), <<>>)
    ELSE Split(Tail(s), Append(cur, s[1]))

\* a piece with every %2e and %2E replaced by a dot
RECURSIVE Undot(_)
Undot(s) ==
    IF s = <<>> THEN <<>>
    ELSE IF Len(s) >= 3 /\ s[1] = 37 /\ s[2] = 50 /\ s[3] \in {101, 69}
         THEN <<46>> \o Undot(SubSeq(s, 4, Len(s)))
         ELSE <<s[1]>> \o Undot(Tail(s))
IsSingleDot(s) == Undot(s) = <<46>>
IsDoubleDot(s) == Undot(s) = <<46, 46>>

\* the parser's path state: a double-dot piece removes the segment before it,
\* a single-dot piece is dropped, and either leaves an empty segment when it
\* is the last piece; every other piece is a segment
RECURSIVE ParsePath(_, _)
ParsePath(pieces, out) ==
    IF pieces = <<>> THEN out
    ELSE LET piece == pieces[1]
             closing == IF Len(pieces) = 1 THEN <<<<>>>> ELSE <<>>
         IN  IF IsDoubleDot(piece)
             THEN ParsePath(Tail(pieces),
                            (IF out = <<>> THEN out
                             ELSE SubSeq(out, 1, Len(out) - 1)) \o closing)
             ELSE IF IsSingleDot(piece)
             THEN ParsePath(Tail(pieces), out \o closing)
             ELSE ParsePath(Tail(pieces), Append(out, piece))

\* Url::parse of a text with a host: a missing path is the path "/"
UrlParse(text) ==
    [scheme |-> text.scheme,
     domain |-> text.host,
     path |-> IF text.path = <<>> THEN <<<<>>>>
              ELSE ParsePath(Split(Tail(text.path), <<>>), <<>>),
     query |-> text.query,
     fragment |-> text.fragment]

\* variant: the fragment is not looked at
NothingFollowsButFragment(u) == Len(u.path) = 6 /\ u.query = None

\* path_segments.next().is_none() && url.fragment().is_none()
\*     && url.query().is_none()
NothingFollows(u) == Len(u.path) = 6 /\ u.fragment = None /\ u.query = None

\* GhReleaseArtifact::try_extract_from_url
try_extract_from_url(u) ==
    LET p == u.path IN
    IF u.domain # Some("github.com") THEN None
    ELSE IF Len(p) < 2 THEN None
    ELSE IF Len(p) < 4 THEN None
    ELSE IF <<p[3], p[4]>> # <<releases, download>> THEN None
    ELSE IF Len(p) < 6 THEN None
    ELSE IF NothingFollows(u)
         THEN Some([release |-> [owner |-> percent_decode_http_url_path(p[1]),
                                 repo |-> percent_decode_http_url_path(p[2]),
                                 tag |-> percent_decode_http_url_path(p[5])],
                    artifact_name |-> percent_decode_http_url_path(p[6])])
         ELSE None

\* the urls examined
Schemes == {"https", "http"}
Hosts == {Some("github.com"), Some("examle.com"), None}
Queries == {None, Some("page=3")}
Fragments == {None, Some("a=12")}
\* paths of any shape over a few segments
ShapePaths == SeqsUpTo({releases, download, <<50>>}, MaxSegments)
\* paths of the download shape: one segment is any string of SegmentBytes of
\* up to MaxLen bytes, the other three are "2" or "%2F"
DownloadPaths ==
    {<<s[1], s[2], releases, download, s[3], s[4]>> :
        s \in {[n EXCEPT ![i] = w] :
                  n \in [1..4 -> {<<50>>, <<37, 50, 70>>}],
                  i \in 1..4,
                  w \in StringsUpTo(SegmentBytes, MaxLen)}}
\* a url has been parsed from its text
InitUrl ==
    /\ Start
    /\ auth_token = FALSE
    /\ tasks = {}
    /\ offered = {}
    /\ \/ \E s \in Schemes, h \in Hosts, p \in ShapePaths, q \in Queries,
             f \in Fragments :
                url = UrlParse(Text(s, h, JoinPath(p), q, f))
       \/ \E s \in Schemes, p \in DownloadPaths :
                url = UrlParse(Text(s, Some("github.com"), JoinPath(p), None, None))
    /\ extracted = None
    /\ response = NoResponse
    /\ classified = None
    /\ stage = "parsed"

\* try_extract_from_url(&url)
Extract ==
    /\ stage = "parsed"
    /\ extracted' = try_extract_from_url(url)
    /\ stage' = "extracted"
    /\ UNCHANGED <<client, url, response, classified>>

\* the url spelled again from the extracted fields, each segment encoded with
\* percent_encode_http_url_path, and parsed
Rebuild ==
    /\ stage = "extracted"
    /\ extracted # None
    /\ LET a == extracted[1] IN
       url' = UrlParse(Text("https", Some("github.com"),
                  JoinPath(<<percent_encode_http_url_path(a.release.owner),
                             percent_encode_http_url_path(a.release.repo),
                             releases, download,
                             percent_encode_http_url_path(a.release.tag),
                             percent_encode_http_url_path(a.artifact_name)>>),
                  None, None))
    /\ stage' = "rebuilt"
    /\ UNCHANGED <<client, extracted, response, classified>>

\* try_extract_from_url(&url) on the url spelled again
ReExtract ==
    /\ stage = "rebuilt"
    /\ extracted' = try_extract_from_url(url)
    /\ stage' = "reextracted"
    /\ UNCHANGED <<client, url, response, classified>>

NextUrl == Extract \/ Rebuild \/ ReExtract

SpecUrl == InitUrl /\ [][NextUrl]_vars

\* ------------------------------------------------ check_for_status
\* largest number of bytes of a header value
MaxHeaderLen == 2

\* the status codes examined: OK, UNAUTHORIZED, FORBIDDEN, NOT_FOUND,
\* TOO_MANY_REQUESTS, INTERNAL_SERVER_ERROR
StatusCodes == {200, 401, 403, 404, 429, 500}
FORBIDDEN == 403
UNAUTHORIZED == 401
NOT_FOUND == 404
\* the bytes header values are spelled with: 0 6 + and the non-ASCII byte FF
HeaderBytes == {48, 54, 43, 255}
\* headers.get(name): None when the header is absent
HeaderValues == {None} \cup {Some(v) : v \in StringsUpTo(HeaderBytes, MaxHeaderLen)}

\* HeaderValue::to_str succeeds: every byte is visible ASCII or a tab
IsVisibleAscii(v) == \A i \in 1..Len(v) : (v[i] >= 32 /\ v[i] < 127) \/ v[i] = 9

\* the number the decimal digits s spell after the number n
RECURSIVE Digits(_, _)
Digits(s, n) ==
    IF s = <<>> THEN n
    ELSE IF s[1] < 48 \/ s[1] > 57 \/ n = NoDuration THEN NoDuration
    ELSE Digits(Tail(s), 10 * n + (s[1] - 48))

\* str::parse::<u64>: an optional + and then at least one digit, digits only;
\* NoDuration stands for Err
ParseU64(s) ==
    LET digits == IF s # <<>> /\ s[1] = 43 THEN Tail(s) ELSE s IN
    IF digits = <<>> THEN NoDuration ELSE Digits(digits, 0)

\* headers.get("x-ratelimit-reset").and_then(|value| value.to_str().ok()?
\*     .parse().ok()?) as Duration::from_secs
RetryAfter(reset) ==
    IF reset = None THEN NoDuration
    ELSE IF ~IsVisibleAscii(reset[1]) THEN NoDuration
    ELSE ParseU64(reset[1])

\* variant: the header counts as zero when it parses to the number 0
RemainingParsesToZero(remaining) ==
    remaining # None /\ IsVisibleAscii(remaining[1]) /\ ParseU64(remaining[1]) = 0

\* headers.get("x-ratelimit-remaining").map(|val| val == "0").unwrap_or(false)
RemainingIsZero(remaining) == remaining # None /\ remaining[1] = <<48>>

\* check_for_status(status, headers)
check_for_status(r) ==
    IF r.status = FORBIDDEN /\ RemainingIsZero(r.remaining)
    THEN Some([kind |-> "ReachedRateLimit", dur |-> RetryAfter(r.reset)])
    ELSE IF r.status = UNAUTHORIZED
    THEN Some([kind |-> "Unauthorized", dur |-> NoDuration])
    ELSE IF r.status = NOT_FOUND
    THEN Some([kind |-> "NotFound", dur |-> NoDuration])
    ELSE None

\* a response has arrived
InitStatus ==
    /\ Start
    /\ auth_token = FALSE
    /\ tasks = {}
    /\ offered = {}
    /\ url = NoUrl
    /\ extracted = None
    /\ response \in [status : StatusCodes, remaining : HeaderValues,
                     reset : HeaderValues, body : {NoBody}]
    /\ classified = None
    /\ stage = "received"

\* check_for_status(response.status(), response.headers())
CheckForStatus ==
    /\ stage = "received"
    /\ classified' = check_for_status(response)
    /\ stage' = "checked"
    /\ UNCHANGED <<client, url, extracted, response>>

NextStatus == CheckForStatus

SpecStatus == InitStatus /\ [][NextStatus]_vars

\* ------------------------------------------------ issue_graphql_query
\* largest number of errors in a GraphQL errors payload
MaxErrors == 2

\* the types of the errors of a payload
ErrorTypes == {"RATE_LIMITED", "NOT_FOUND", "OTHER"}
\* response bodies: {"data": ..}, {"errors": [..]} and one that is neither
DataBody == [kind |-> "data", errors |-> <<>>]
MalformedBody == [kind |-> "malformed", errors |-> <<>>]
ErrorsBody(e) == [kind |-> "errors", errors |-> e]
Bodies ==
    {DataBody, MalformedBody}
    \cup {ErrorsBody(e) : e \in SeqsUpTo(ErrorTypes, MaxErrors)}

\* values of Result<GraphQLResult<T, U>, GhApiError>
GraphQLData == [kind |-> "Data", dur |-> NoDuration]
GraphQLElse(ret) == ret
GraphQLErr == [kind |-> "Err", dur |-> NoDuration]

\* GhGraphQLErrors::is_rate_limited: some error has the type RATE_LIMITED
is_rate_limited(errors) ==
    \E i \in 1..Len(errors) : errors[i] = "RATE_LIMITED"

\* variant: the body is parsed before the status is looked at
issue_graphql_query_body_first(r) ==
    IF r.body.kind = "malformed" THEN GraphQLErr
    ELSE IF check_for_status(r) # None THEN GraphQLElse(check_for_status(r)[1])
    ELSE IF r.body.kind = "data" THEN GraphQLData
    ELSE IF is_rate_limited(r.body.errors)
    THEN GraphQLElse([kind |-> "ReachedRateLimit", dur |-> NoDuration])
    ELSE GraphQLErr

\* issue_graphql_query once the response r has arrived: check_for_status,
\* then response.json(), then the match on the GraphQLResponse
issue_graphql_query(r) ==
    IF check_for_status(r) # None THEN GraphQLElse(check_for_status(r)[1])
    ELSE IF r.body.kind = "malformed" THEN GraphQLErr
    ELSE IF r.body.kind = "data" THEN GraphQLData
    ELSE IF is_rate_limited(r.body.errors)
    THEN GraphQLElse([kind |-> "ReachedRateLimit", dur |-> NoDuration])
    ELSE GraphQLErr

\* a GraphQL query is about to be sent; response is what the server answers
InitGraphQL ==
    /\ Start
    /\ auth_token = TRUE
    /\ tasks = {}
    /\ offered = {}
    /\ url = NoUrl
    /\ extracted = None
    /\ response \in [status : StatusCodes, remaining : HeaderValues,
                     reset : {None, Some(<<54, 48>>)}, body : Bodies]
    /\ classified = None
    /\ stage = "sending"

\* request_builder.send(false).await? fails: no response is looked at
SendFails ==
    /\ stage = "sending"
    /\ classified' = Some(GraphQLErr)
    /\ stage' = "failed"
    /\ UNCHANGED <<client, url, extracted, response>>

\* the response arrives and issue_graphql_query returns
IssueGraphqlQuery ==
    /\ stage = "sending"
    /\ classified' = Some(issue_graphql_query(response))
    /\ stage' = "answered"
    /\ UNCHANGED <<client, url, extracted, response>>

NextGraphQL == SendFails \/ IssueGraphqlQuery

SpecGraphQL == InitGraphQL /\ [][NextGraphQL]_vars

\* ------------------------------------------------------------------ claims
Fetching(c) == pc[c] \in {"fetch_with_token", "fetch_without_token"}
Computing(c) == pc[c] \in {"gate", "auth"} \/ Fetching(c)
Returns(c) == pc[c] = "return" /\ pc'[c] = "idle"
Issues(c) == Len(fetches'[c]) > Len(fetches[c])
LastFetch(c) == fetches[c][Len(fetches[c])]
\* the answer to the fetch in flight of c arrives in this step
Answers(c, k) ==
    /\ Fetching(c)
    /\ LastFetch(c).kind = "InFlight"
    /\ fetches'[c][Len(fetches[c])].kind = k
PassesGate(c) == pc[c] = "gate" /\ pc'[c] # "gate"

\* C1: as long as every fetch is answered Success, concurrent calls for the
\* artifacts a, b, c of release R1 issue exactly one fetch for R1 between
\* them, and each call returns Yes with the url of its own artifact.
C1_OneFetchAllFound ==
    /\ [](allSuccess => \A r \in Releases : issued[r] <= 1)
    /\ [][\A c \in Callers :
            (Returns(c) /\ allSuccess /\ release[c] = "R1") =>
                /\ artifact_name[c] \in {"a", "b", "c"}
                /\ returned' = Yes(Url("R1", artifact_name[c]))
                /\ issued["R1"] = 1]_vars

\* three calls at once, for a, b and c of R1: one fetch was issued, the call
\* for b has just returned Yes and the other two hold the same index
C1_Witness ==
    /\ allSuccess /\ issued["R1"] = 1
    /\ returned = Yes(Url("R1", "b"))
    /\ pc["t1"] = "return" /\ res["t1"].kind = "Some" /\ artifact_name["t1"] = "a"
    /\ pc["t2"] = "return" /\ res["t2"].kind = "Some" /\ artifact_name["t2"] = "c"

\* C2: once the cell of a release holds Some(index) or None, the map keeps
\* that cell for the release, the cell's value never changes, and no call for
\* that release issues a fetch.
C2_CellPermanent ==
    [][\A r \in Releases :
        LET i == release_artifacts[r] IN
        (i # NoCell /\ cells[i] # Uninit) =>
            /\ release_artifacts'[r] = i
            /\ cells'[i] = cells[i]
            /\ \A c \in Callers : release[c] = r => ~Issues(c)]_vars

\* a second call for a release whose cell holds None got the cached value
\* without fetching
C2_Witness ==
    \E c \in Callers :
        /\ pc[c] = "return" /\ fetches[c] = <<>> /\ res[c].kind = "None"
        /\ cells[release_artifacts[release[c]]] = res[c]

\* C3: a call that got the cached value of its release returns Yes(url) when
\* the value is Some(index) and index has the name, No when it is Some(index)
\* without the name, NoSuchRelease when it is None.
C3_ResultFromCache ==
    [][\A c \in Callers :
        LET v == cells[release_artifacts[release[c]]]
            n == artifact_name[c] IN
        (Returns(c) /\ res[c].kind \in {"Some", "None"}) =>
            /\ v = res[c]
            /\ (v.kind = "Some" /\ n \in DOMAIN v.index) =>
                    (returned' = Yes(v.index[n]) /\ v.index[n] = Url(release[c], n))
            /\ (v.kind = "Some" /\ n \notin DOMAIN v.index) => returned' = No
            /\ v.kind = "None" => returned' = NoSuchRelease]_vars

\* a call for a name the release does not list has just returned No
C3_Witness ==
    /\ returned = No
    /\ \E r \in Releases : release_artifacts[r] # NoCell
                           /\ cells[release_artifacts[r]].kind = "Some"
                           /\ "c" \notin DOMAIN cells[release_artifacts[r]].index

\* C4: a call whose fetch with the token is answered Unauthorized issues
\* exactly one more fetch, without token; and once a token was rejected, no
\* fetch with the token is issued any more (so no call that begins its
\* computation afterwards issues one).
C4_FallbackOnceThenNoToken ==
    /\ [](\A c \in Callers :
            /\ Len(fetches[c]) <= 2
            /\ (Len(fetches[c]) >= 1 /\ fetches[c][1].cred
                    /\ fetches[c][1].kind = "Unauthorized") =>
                (Len(fetches[c]) = 2 /\ ~fetches[c][2].cred))
    /\ [][\A c \in Callers :
            (tokenRejected /\ Issues(c)) => ~fetches'[c][Len(fetches'[c])].cred]_vars

\* after a rejection of the token, a call is in its only fetch, issued
\* without token
C4_Witness ==
    /\ auth_token /\ tokenRejected
    /\ \E c \in Callers :
        /\ pc[c] = "fetch_without_token"
        /\ Len(fetches[c]) = 1 /\ ~fetches[c][1].cred

\* C5 as stated: once the fetch of a call d is classified RateLimited with
\* deadline D, the gate check of a call for another release made while D has
\* not passed ends that call with RateLimit.
C5_Original ==
    [][\A c, d \in Callers :
        (/\ c # d /\ release[c] # release[d]
         /\ pc[d] = "return" /\ fetches[d] # <<>> /\ res[d].kind = "RateLimit"
         /\ now <= res[d].at
         /\ PassesGate(c)) =>
            (pc'[c] = "return" /\ res'[c].kind = "RateLimit")]_vars

\* C5 amended: a gate check made while retry_after holds a deadline that has
\* not passed ends the call with RateLimit carrying that deadline; the call
\* issues no fetch and returns RateLimit, the gate keeping the deadline.
C5_GateHoldsBack ==
    /\ [][\A c \in Callers :
            (PassesGate(c) /\ retry_after # NoInstant /\ now <= retry_after) =>
                /\ pc'[c] = "return"
                /\ res'[c] = ErrRateLimit(retry_after)
                /\ fetches'[c] = <<>>
                /\ retry_after' = retry_after]_vars
    /\ [][\A c \in Callers :
            (Returns(c) /\ res[c].kind = "RateLimit" /\ fetches[c] = <<>>) =>
                (returned' = RateLimit(res[c].at) /\ guard[c] = res[c].at)]_vars

\* both releases have been asked about, and a call was held back by the
\* deadline in the gate without fetching
C5_Witness ==
    /\ \A r \in Releases : release_artifacts[r] # NoCell
    /\ \E c \in Callers :
        /\ pc[c] = "return" /\ fetches[c] = <<>>
        /\ res[c].kind = "RateLimit" /\ res[c].at = retry_after

\* the deadline of a rate limit classified at instant t with duration d
C6_Deadline(t, d) ==
    LET dd == IF d = NoDuration THEN 10 * 60 ELSE d IN
    IF t + dd > InstantMax THEN t + 10 * 60 ELSE t + dd

\* C6: a fetch answered ReachedRateLimit with duration d at instant now ends
\* the computation with RateLimit at now + d (d = 10 minutes when absent, and
\* now + 10 minutes when now + d overflows); the call returns RateLimit with
\* that deadline and at its return retry_after holds it.
C6_DeadlineReturnedAndRecorded ==
    /\ [][\A c \in Callers :
            Answers(c, "ReachedRateLimit") =>
                /\ pc'[c] = "return"
                /\ res'[c] = ErrRateLimit(
                       C6_Deadline(now, fetches'[c][Len(fetches[c])].dur))]_vars
    /\ [][\A c \in Callers :
            (Returns(c) /\ res[c].kind = "RateLimit") =>
                (returned' = RateLimit(res[c].at) /\ retry_after' = res[c].at)]_vars

\* a rate limit whose duration overflows was classified after time 0
C6_Witness ==
    \E c \in Callers :
        /\ pc[c] = "return" /\ fetches[c] # <<>>
        /\ LastFetch(c).kind = "ReachedRateLimit" /\ LastFetch(c).dur = HugeRetry
        /\ now > 0 /\ res[c].at = now + 10 * 60

C8_ErrorNotCached ==
    /\ [][\A c \in Callers :
            Answers(c, "Err") =>
                /\ pc'[c] = "return" /\ res'[c] = ErrError
                /\ Len(fetches'[c]) = Len(fetches[c])
                /\ cells' = cells /\ cells[once_cell[c]] = Uninit
                /\ permits'[once_cell[c]] = Free]_vars
    /\ [][\A c \in Callers :
            (Returns(c) /\ res[c].kind = "Error") =>
                /\ returned'.kind = "Err"
                /\ returned'.kind \notin {"Yes", "No", "NoSuchRelease",
                                          "Unauthorized", "RateLimit"}
                /\ cells' = cells]_vars

\* a call is about to return a transport error, its cell still unset
C8_Witness ==
    \E c \in Callers :
        /\ pc[c] = "return" /\ res[c].kind = "Error"
        /\ cells[once_cell[c]] = Uninit /\ permits[once_cell[c]] = Free

\* C9: a call ends with Unauthorized only when its last fetch was issued
\* without token and answered Unauthorized.
C9_UnauthorizedOnlyFromFallback ==
    /\ [](\A c \in Callers :
            (pc[c] = "return" /\ res[c].kind = "Unauthorized") =>
                /\ fetches[c] # <<>>
                /\ ~LastFetch(c).cred
                /\ LastFetch(c).kind = "Unauthorized")
    /\ [][\A c \in Callers :
            (Returns(c) /\ returned'.kind = "Unauthorized") =>
                res[c].kind = "Unauthorized"]_vars

\* the token was rejected and then the fetch without token was rejected too
C9_Witness ==
    \E c \in Callers :
        /\ pc[c] = "return" /\ res[c].kind = "Unauthorized"
        /\ Len(fetches[c]) = 2 /\ fetches[c][1].cred

\* C10: no two callers are inside the computation (gate check, fetch with
\* token, fetch without token) for the same release at the same time.
C10_OneSequencePerKey ==
    \A c, d \in Callers :
        (c # d /\ Computing(c) /\ Computing(d)) => release[c] # release[d]

\* a fetch is in flight while two other callers of the same release wait
C10_Witness ==
    /\ pc["t1"] = "once" /\ pc["t2"] = "once" /\ Fetching("t3")
    /\ release["t1"] = release["t3"] /\ release["t2"] = release["t3"]

\* the url has host github.com, exactly the six path segments
\* {owner}/{repo}/releases/download/{tag}/{artifact}, no query, no fragment
DownloadShape(u) ==
    /\ u.domain = Some("github.com")
    /\ Len(u.path) = 6
    /\ u.path[3] = releases /\ u.path[4] = download
    /\ u.query = None /\ u.fragment = None
Extracted == stage \in {"extracted", "reextracted"}

\* C11 as stated: try_extract_from_url returns None for every url that is
\* not https://github.com/{owner}/{repo}/releases/download/{tag}/{artifact}.
C11_Original ==
    (Extracted /\ ~(url.scheme = "https" /\ DownloadShape(url))) => extracted = None

\* C11 amended: try_extract_from_url returns None for every url whose host
\* is not github.com, whose path has more or fewer than six segments or
\* another third or fourth segment than releases and download, or that has
\* a query or a fragment, whatever its scheme.
C11_NoneOutsideShape ==
    (Extracted /\ ~DownloadShape(url)) => extracted = None

\* a github.com url whose path has the download shape but that carries a
\* fragment was not extracted
C11_Witness ==
    /\ stage = "extracted" /\ extracted = None
    /\ url.scheme = "https" /\ url.domain = Some("github.com")
    /\ Len(url.path) = 6 /\ url.path[3] = releases /\ url.path[4] = download
    /\ url.query = None /\ url.fragment # None

\* the chars a path segment stands for
C12_Decoded(segment) == decode_utf8_lossy(percent_decode_str(segment))

\* C12: for a url of host github.com with exactly the path
\* {owner}/{repo}/releases/download/{tag}/{artifact}, no query and no
\* fragment, try_extract_from_url returns owner, repo, tag and artifact name,
\* each the percent-decoding of its own segment: a segment without % is
\* returned as spelled, and the tag segment %2F is the tag "/".
C12_DecodedIndependently ==
    (stage = "extracted" /\ DownloadShape(url)) =>
        /\ extracted = Some([release |-> [owner |-> C12_Decoded(url.path[1]),
                                          repo |-> C12_Decoded(url.path[2]),
                                          tag |-> C12_Decoded(url.path[5])],
                             artifact_name |-> C12_Decoded(url.path[6])])
        /\ url.path[5] = <<37, 50, 70>> => extracted[1].release.tag = <<47>>
        /\ (\A i \in 1..Len(url.path[6]) : url.path[6][i] # 37) =>
                extracted[1].artifact_name = url.path[6]

\* the tag segment %2F was extracted as the tag "/" next to an artifact
\* segment that holds a % without hex digits and was kept as spelled
C12_Witness ==
    /\ stage = "extracted" /\ extracted # None
    /\ url.path[5] = <<37, 50, 70>> /\ extracted[1].release.tag = <<47>>
    /\ url.path[6] = <<37, 46, 50>> /\ extracted[1].artifact_name = <<37, 46, 50>>

\* C13: the url spelled again from the extracted owner, repo, tag and
\* artifact name, each encoded with percent_encode_http_url_path, is
\* extracted to the same owner, repo, tag and artifact name.
C13_RoundTrip ==
    [][(stage = "rebuilt" /\ stage' = "reextracted") => extracted' = extracted]_vars

\* an owner "/" and a tag U+FFFD came back from the url spelled again, where
\* they are %2F and %EF%BF%BD
C13_Witness ==
    /\ stage = "reextracted" /\ extracted # None
    /\ extracted[1].release.owner = <<47>>
    /\ extracted[1].release.tag = <<Replacement>>
    /\ url.path[1] = <<37, 50, 70>>
    /\ url.path[5] = <<37, 69, 70, 37, 66, 70, 37, 66, 68>>

\* C14: check_for_status gives Unauthorized for 401, NotFound for 404,
\* ReachedRateLimit for 403 with x-ratelimit-remaining equal to "0", whose
\* retry_after is x-ratelimit-reset read as a number of seconds and is absent
\* when that header is absent or is no number; every other status and
\* headers, 403 with another or no x-ratelimit-remaining among them, give None.
C14_StatusClassification ==
    stage = "checked" =>
        LET limited == response.status = 403 /\ response.remaining = Some(<<48>>) IN
        /\ response.status = 401 => classified = Some([kind |-> "Unauthorized", dur |-> NoDuration])
        /\ response.status = 404 => classified = Some([kind |-> "NotFound", dur |-> NoDuration])
        /\ limited =>
            /\ classified # None /\ classified[1].kind = "ReachedRateLimit"
            /\ response.reset = None => classified[1].dur = NoDuration
            /\ response.reset = Some(<<54, 48>>) => classified[1].dur = 60
            /\ response.reset = Some(<<43, 54>>) => classified[1].dur = 6
            /\ (response.reset # None /\ response.reset[1] # <<>>
                    /\ \A i \in 1..Len(response.reset[1]) :
                            response.reset[1][i] \in 48..57) =>
                    classified[1].dur = Digits(response.reset[1], 0)
            /\ (response.reset # None
                    /\ \/ response.reset[1] \in {<<>>, <<43>>}
                       \/ \E i \in 1..Len(response.reset[1]) :
                            /\ response.reset[1][i] \notin 48..57
                            /\ ~(i = 1 /\ response.reset[1][i] = 43)) =>
                    classified[1].dur = NoDuration
        /\ (response.status \notin {401, 404} /\ ~limited) => classified = None

\* a 403 with x-ratelimit-remaining "0" and x-ratelimit-reset "60" was
\* classified as a rate limit of 60 seconds
C14_Witness ==
    /\ stage = "checked"
    /\ response.status = 403 /\ response.remaining = Some(<<48>>)
    /\ response.reset = Some(<<54, 48>>)
    /\ classified = Some([kind |-> "ReachedRateLimit", dur |-> 60])

\* c and d are in has_release_artifact with the same cell
SameCell(c, d) == c # d /\ once_cell[c] # NoCell /\ once_cell[c] = once_cell[d]

C16_GateCheckOneStep ==
    /\ [][\A c \in Callers :
            PassesGate(c) =>
                /\ guard'[c] = retry_after
                /\ fetches[c] = <<>> /\ fetches'[c] = <<>>
                /\ IF retry_after = NoInstant
                   THEN pc'[c] = "auth" /\ retry_after' = NoInstant
                   ELSE IF now <= retry_after
                   THEN /\ pc'[c] = "return"
                        /\ res'[c] = ErrRateLimit(retry_after)
                        /\ retry_after' = retry_after
                   ELSE pc'[c] = "auth" /\ retry_after' = NoInstant]_vars
    /\ [](\A c \in Callers :
            (Fetching(c) \/ pc[c] = "auth") =>
                (guard[c] = NoInstant \/ guard[c] < now))

\* a gate check has just cleared a deadline that had passed; the call has
\* not fetched yet
C16_Witness ==
    \E c \in Callers :
        /\ pc[c] = "auth" /\ fetches[c] = <<>>
        /\ guard[c] # NoInstant /\ guard[c] < now
        /\ retry_after = NoInstant

\* no call holds a RateLimit result that it has not recorded yet
AllRecorded == \A c \in Callers : ~(pc[c] = "return" /\ res[c].kind = "RateLimit")

\* C17 as stated: once every call that ended in RateLimit has recorded its
\* deadline, a deadline held by the gate is the one of the rate-limit
\* response classified most recently.
C17_Original ==
    (AllRecorded /\ retry_after # NoInstant) => retry_after = newest

\* C17 amended: the last write wins. A call that returns RateLimit leaves its
\* own deadline in the gate whatever the gate held; the gate changes in no
\* other way than by such a return or by a gate check that clears a deadline
\* that has passed.
C17_LastWriteWins ==
    /\ [][\A c \in Callers :
            (Returns(c) /\ res[c].kind = "RateLimit") => retry_after' = res[c].at]_vars
    /\ [][retry_after' # retry_after =>
            \/ \E c \in Callers :
                    Returns(c) /\ res[c].kind = "RateLimit" /\ retry_after' = res[c].at
            \/ \E c \in Callers :
                    PassesGate(c) /\ retry_after < now /\ retry_after' = NoInstant]_vars

\* the last call that held a RateLimit has just returned it and left its
\* deadline in the gate, which is not the one classified most recently
C17_Witness ==
    /\ AllRecorded
    /\ returned.kind = "RateLimit" /\ returned.at = retry_after
    /\ newest # NoInstant /\ retry_after # newest

\* is_auth_token_valid never changes from false to true
C18_NeverBackToTrue == [][is_auth_token_valid' => is_auth_token_valid]_vars

\* C18: is_auth_token_valid never returns from false to true, and it changes
\* from true to false only in a step in which a fetch issued with the
\* credential is classified Unauthorized.
C18_Original ==
    /\ C18_NeverBackToTrue
    /\ [][(is_auth_token_valid /\ ~is_auth_token_valid') =>
            \E c \in Callers : Answers(c, "Unauthorized") /\ LastFetch(c).cred]_vars

\* C19: on a client constructed without token no call issues more than one
\* fetch, also when that fetch is classified Unauthorized.
C19_Original ==
    ~auth_token => \A c \in Callers : Len(fetches[c]) <= 1

\* C20: the answer to the first fetch of a call is followed by one more
\* fetch of that call, without token, exactly when the first fetch was
\* issued while the flag was set and is classified Unauthorized; every other
\* answer (Success, NotFound, ReachedRateLimit, an error) and every answer to
\* the second fetch ends the computation without another fetch; so a call
\* issues at most two fetches.
C20_FallbackOnlyAfterUnauthorized ==
    /\ [][\A c \in Callers, k \in {"Success", "NotFound", "ReachedRateLimit",
                                     "Unauthorized", "Err"} :
            Answers(c, k) =>
                IF Len(fetches[c]) = 1 /\ k = "Unauthorized"
                      /\ pc[c] = "fetch_with_token"
                THEN /\ Len(fetches'[c]) = 2
                     /\ fetches'[c][2] = InFlight(FALSE)
                     /\ Fetching(c)'
                ELSE /\ Len(fetches'[c]) = Len(fetches[c])
                     /\ pc'[c] = "return"]_vars
    /\ [][\A c \in Callers :
            (Issues(c) /\ fetches[c] # <<>>) =>
                (Len(fetches[c]) = 1 /\ Answers(c, "Unauthorized"))]_vars
    /\ [][\A c \in Callers :
            pc[c] = "return" => (~Issues(c) /\ (pc'[c] = "return" \/ Returns(c)))]_vars

\* the first fetch of a call, issued with the token, was answered
\* ReachedRateLimit and the call is about to return after that one fetch
C20_Witness ==
    \E c \in Callers :
        /\ pc[c] = "return" /\ res[c].kind = "RateLimit"
        /\ Len(fetches[c]) = 1
        /\ fetches[c][1].cred /\ fetches[c][1].kind = "ReachedRateLimit"
        /\ is_auth_token_valid

\* C21: the answer of issue_graphql_query to a response is what
\* check_for_status makes of its status and headers whenever that is a
\* classification, whatever the body; otherwise Data for a body with data,
\* ReachedRateLimit without duration for a body with errors one of which is
\* RATE_LIMITED, and an error for a body with other errors or one that is
\* neither; it is never Success or NotFound on the strength of the body.
C21_GraphQLClassification ==
    stage = "answered" =>
        LET limited == response.status = 403 /\ response.remaining = Some(<<48>>)
            byStatus == response.status \in {401, 404} \/ limited
            ans == classified[1]
        IN  /\ classified # None
            /\ response.status = 401 => ans = [kind |-> "Unauthorized", dur |-> NoDuration]
            /\ response.status = 404 => ans = [kind |-> "NotFound", dur |-> NoDuration]
            /\ limited => (ans.kind = "ReachedRateLimit"
                            /\ ans.dur = IF response.reset = None THEN NoDuration ELSE 60)
            /\ ~byStatus =>
                /\ response.body.kind = "data" => ans = [kind |-> "Data", dur |-> NoDuration]
                /\ (response.body.kind = "errors"
                        /\ \E i \in 1..Len(response.body.errors) :
                                response.body.errors[i] = "RATE_LIMITED") =>
                        ans = [kind |-> "ReachedRateLimit", dur |-> NoDuration]
                /\ (response.body.kind = "errors"
                        /\ \A i \in 1..Len(response.body.errors) :
                                response.body.errors[i] # "RATE_LIMITED") =>
                        ans = [kind |-> "Err", dur |-> NoDuration]
                /\ response.body.kind = "malformed" => ans = [kind |-> "Err", dur |-> NoDuration]
                /\ ans.kind \notin {"Success", "NotFound", "Unauthorized"}

\* a 200 response whose errors payload has RATE_LIMITED as its second error
\* was answered with ReachedRateLimit without duration
C21_Witness ==
    /\ stage = "answered"
    /\ response.status = 200
    /\ response.body = ErrorsBody(<<"OTHER", "RATE_LIMITED">>)
    /\ classified = Some([kind |-> "ReachedRateLimit", dur |-> NoDuration])

\* C22: Map::get never leaves two cells for one key: after every step each
\* caller that holds a cell holds the one the map has for its release, the
\* map has one cell per key that was asked for and no cell besides, and a
\* key that has a cell keeps that very cell, whether or not it has a value.
C22_OneCellPerKey ==
    [][/\ \A c \in Callers :
            once_cell'[c] # NoCell => once_cell'[c] = release_artifacts'[release'[c]]
       /\ \A r, q \in Releases :
            (r # q /\ release_artifacts'[r] # NoCell) =>
                release_artifacts'[r] # release_artifacts'[q]
       /\ Len(cells') = Cardinality({r \in Releases : release_artifacts'[r] # NoCell})
       /\ \A r \in Releases :
            release_artifacts[r] # NoCell => release_artifacts'[r] = release_artifacts[r]
       /\ Len(cells') >= Len(cells)]_vars

\* concurrent first accesses: both callers found the key absent under the
\* read lock; one has been through entry().or_default() and holds the cell
\* the map now has for the key, which nobody has initialized, and the other
\* is about to call entry().or_default() under the write lock
C22_Witness ==
    \E c, d \in Callers :
        /\ c # d
        /\ calls = 2
        /\ release[c] = release[d]
        /\ pc[c] = "once" /\ pc[d] = "map_write"
        /\ once_cell[c] = release_artifacts[release[c]]
        /\ once_cell[c] # NoCell /\ once_cell[d] = NoCell
        /\ cells[once_cell[c]] = Uninit /\ permits[once_cell[c]] = Free

\* a caller leaves its call without a result
Abandons(c) == pc[c] \in {"once", "gate", "auth"} \cup {"fetch_with_token", "fetch_without_token"}
               /\ pc'[c] = "idle"

\* C23: when a caller abandons its call, the computation for its release goes
\* on: if the caller was running the closure of the cell, the cell's permit is
\* still held and the fetch sequence still in progress after the step, and if
\* it was waiting for the cell, whoever runs the closure is not disturbed; so
\* no caller can begin a second fetch sequence for the release.
C23_Original ==
    [][\A c \in Callers :
        Abandons(c) =>
            /\ Computing(c) =>
                    /\ permits'[once_cell[c]] # Free
                    /\ \E d \in Callers :
                            pc'[d] = pc[c] /\ once_cell'[d] = once_cell[c]
            /\ \A d \in Callers \ {c} :
                    /\ pc'[d] = pc[d]
                    /\ fetches'[d] = fetches[d]
                    /\ once_cell'[d] = once_cell[d]]_vars

\* a second fetch sequence for a release whose first was never answered:
\* the caller that began the first dropped its call, and a caller that had
\* joined took the permit and issued the release's second fetch
C23_SecondSequence ==
    \E d \in Callers :
        /\ Fetching(d) /\ Len(fetches[d]) = 1
        /\ issued[release[d]] = 2
        /\ allSuccess /\ ~tokenRejected
        /\ cells[once_cell[d]] = Uninit
        /\ \A c \in Callers \ {d} : ~Computing(c)

\* C24: under fair scheduling and with every fetch answered, every call of
\* has_release_artifact that has begun returns; in particular a caller that
\* waits in get_or_try_init for a cell another caller is computing gets out
\* of it, whatever that computation ends in.
C24_EveryCallReturns ==
    \A c \in Callers : (pc[c] # "idle") ~> (pc[c] = "idle")

\* two callers of one release have both left get_or_try_init with an error:
\* the one whose closure ran first, and the one that then got the permit and
\* ran the closure itself
C24_Witness ==
    \E c, d \in Callers :
        /\ c # d /\ once_cell[c] = once_cell[d] /\ once_cell[c] # NoCell
        /\ pc[c] = "return" /\ pc[d] = "return"
        /\ res[d].kind \in {"RateLimit", "Unauthorized", "Error"}
        /\ res[c].kind \in {"RateLimit", "Unauthorized", "Error"}
        /\ fetches[d] # <<>> /\ fetches[c] # <<>>
        /\ cells[once_cell[c]] = Uninit /\ permits[once_cell[c]] = Free

\* a call for a release whose cell holds a value, which is about to look the
\* cell up, about to read it, or has read it without running the closure
Cached(c) ==
    /\ pc[c] \in {"map_read", "once", "return"}
    /\ release_artifacts[release[c]] # NoCell
    /\ cells[release_artifacts[release[c]]] # Uninit
    /\ fetches[c] = <<>>
    /\ pc[c] = "return" => res[c].kind \in {"Some", "None"}

\* the gate holds a deadline that has not passed
GateHolds == retry_after # NoInstant /\ now <= retry_after

\* C25: every step of a call for a release whose cell already holds a value
\* leaves retry_after, is_auth_token_valid, the map, the cells and their
\* permits as they are and issues no fetch; the call never enters the closure,
\* and it returns Yes, No or NoSuchRelease, whatever the gate holds.
C25_CachedCallFrame ==
    [][\A c \in Callers :
        (Cached(c) /\ pc'[c] # pc[c]) =>
            /\ UNCHANGED <<retry_after, is_auth_token_valid, release_artifacts,
                           cells, permits, issued>>
            /\ ~Issues(c)
            /\ pc'[c] \in {"once", "return", "idle"}
            /\ pc'[c] = "return" =>
                    res'[c] = cells[release_artifacts[release[c]]]
            /\ Returns(c) =>
                    /\ returned'.kind \in {"Yes", "No", "NoSuchRelease"}
                    /\ GateHolds' = GateHolds]_vars

\* a call for a release whose cell holds a value has left get_or_try_init
\* with that value, without a fetch, while the gate holds a deadline that has
\* not passed
C25_Witness ==
    \E c \in Callers :
        /\ Cached(c) /\ pc[c] = "return"
        /\ res[c] = cells[release_artifacts[release[c]]]
        /\ GateHolds
====
